---- MODULE Spec2Model ----
(***************************************************************************)
(* Model of the career-advice backend: the content moderation pipeline     *)
(* (backend/app/services/content_validator.py), the background moderation  *)
(* pass and reviewer endpoints (backend/app/main.py), the embedding job     *)
(* (backend/scripts/generate_embeddings.py) and the pgvector retriever      *)
(* (backend/app/services/rag_service.py).                                   *)
(*                                                                         *)
(* Text is a sequence of whitespace-separated tokens.  Python's None is     *)
(* the empty tuple and a present optional value v is <<v>>.                 *)
(***************************************************************************)
EXTENDS Naturals, Integers, Sequences, FiniteSets, TLC

VARIABLES
    vtext,        \* validate_experience: the submitted text
    vtox,         \* behaviour of the toxicity pipeline on this call
    vrel,         \* behaviour of the zero-shot relevance pipeline on this call
    vpc,          \* "start" before the call, "done" after it
    vstages,      \* results of the four stages (locals of validate_experience)
    vresult,      \* what the call produced: a verdict or an exception
    experiences,  \* table user_experiences: id -> row
    posts,        \* table posts: id -> row
    tasks,        \* background tasks: id -> position and arguments
    job,          \* generate_user_experience_embeddings: rows loaded in its session
    query,        \* the last retriever call: inputs and outcome
    call,         \* a function called on its own: its name and arguments
    ret,          \* what that call has returned so far, oldest first
    globals,      \* content_validator: toxicity_pipeline and relevance_pipeline
    threads,      \* threads inside _get_toxicity_pipeline / _get_relevance_pipeline
    constructed   \* how many times pipeline(...) has built each pipeline

pvars == <<globals, threads, constructed>>
vvars == <<vtext, vtox, vrel, vpc, vstages, vresult, pvars>>
svars == <<experiences, posts, tasks, job, query>>
cvars == <<call, ret>>
vars == <<vtext, vtox, vrel, vpc, vstages, vresult,
          experiences, posts, tasks, job, query, call, ret,
          globals, threads, constructed>>

\* ---------------------------------------------------------------- bounds
MaxLen == 3
MaxExp == 1
MaxPosts == 2
MaxVec == 2
MaxThreads == 2
MaxCalls == 2

\* ------------------------------------------------------- optional values
None == <<>>
Some(v) == <<v>>

\* ------------------------------------------------------------ text model
RECURSIVE SeqsUpTo(_, _)
SeqsUpTo(S, n) ==
    IF n = 0 THEN {<<>>}
    ELSE LET shorter == SeqsUpTo(S, n - 1)
         IN  shorter \cup {Append(s, t) : s \in {u \in shorter : Len(u) = n - 1}, t \in S}

\* str.lower() on the tokens of the vocabulary
LowerTok(t) ==
    CASE t = "Stupid" -> "stupid"
      [] t = "JOB" -> "job"
      [] t = "NEGATIVE" -> "negative"
      [] OTHER -> t

Lower(toks) == [i \in 1..Len(toks) |-> LowerTok(toks[i])]

\* `phrase in lowered`: the phrase occurs as a contiguous run of tokens
ContainsPhrase(toks, phrase) ==
    \E i \in 1..(Len(toks) + 1 - Len(phrase)) :
        SubSeq(toks, i, i + Len(phrase) - 1) = phrase

ContainsAny(toks, phrases) == \E p \in phrases : ContainsPhrase(toks, p)

_get_keywords ==
    [ hate |-> {<<"idiot">>, <<"stupid">>, <<"dumb">>, <<"loser">>},
      threats |-> {<<"kill", "you">>, <<"hurt", "you">>, <<"destroy", "you">>},
      self_harm |-> {<<"end", "my", "life">>, <<"kill", "myself">>},
      illegal_advice |-> {<<"lie", "on", "my", "resume">>, <<"lie", "on", "your", "resume">>,
                          <<"fake", "experience">>, <<"cheat", "the", "test">>,
                          <<"cheat", "the", "interview">>, <<"bribe">>,
                          <<"insider", "info">>, <<"insider", "information">>},
      promo |-> {<<"promo", "code">>, <<"discount">>, <<"affiliate">>,
                 <<"sign", "up", "here">>, <<"dm", "me">>} ]

career_keywords ==
    {<<"job">>, <<"work">>, <<"career">>, <<"internship">>, <<"interview">>,
     <<"resume">>, <<"cv">>, <<"promotion">>, <<"manager">>, <<"software", "engineer">>,
     <<"developer">>, <<"programmer">>, <<"data", "scientist">>, <<"tech", "company">>,
     <<"startup">>, <<"team", "lead">>, <<"product", "manager">>}

\* A token is a run of non-blank characters; a token in which two matches or
\* a match and a placeholder are glued together is the sequence of its parts.
\* Tokens not listed are one part.
Atoms(t) ==
    CASE t = "5551234567www.c.com" -> <<"5551234567", "www.c.com">>
      [] t = "5551234567[URL]" -> <<"5551234567", "[URL]">>
      [] OTHER -> <<t>>

RECURSIVE Concat(_)
Concat(parts) == IF parts = <<>> THEN "" ELSE Head(parts) \o Concat(Tail(parts))

\* the text as one line of parts, the tokens separated by a blank
RECURSIVE Line(_)
Line(toks) ==
    IF toks = <<>> THEN <<>>
    ELSE IF Len(toks) = 1 THEN Atoms(Head(toks))
    ELSE Atoms(Head(toks)) \o <<" ">> \o Line(Tail(toks))

\* the tokens of a line of parts
RECURSIVE Unline(_)
Unline(a) ==
    IF a = <<>> THEN <<>>
    ELSE LET blanks == {i \in 1..Len(a) : a[i] = " "}
         IN  IF blanks = {} THEN <<Concat(a)>>
             ELSE LET first == CHOOSE i \in blanks : \A j \in blanks : i <= j
                  IN  <<Concat(SubSeq(a, 1, first - 1))>>
                      \o Unline(SubSeq(a, first + 1, Len(a)))

\* characters outside \w that begin or end a part of the vocabulary
NonWordChars == {" ", "[", "]", "\"", "'", ";"}
StartsWithWord(a) == SubSeq(a, 1, 1) \notin NonWordChars
EndsWithWord(a) == SubSeq(a, Len(a), Len(a)) \notin NonWordChars

\* runs of digits and '-' that begin and end with a digit
DigitRuns == {"555-123-4567", "5551234567", "555-1234"}

\* \d[\d\-\s]{7,}\d matches 1 + 7 + 1 characters or more
PhoneMinLen == 9

\* The three regular expressions: the parts a match is made of, its least
\* length, whether it needs a word boundary (\b) on both sides, whether it
\* runs on to the end of the token (\S+) and whether it runs across blanks
\* (\s in the character class).  No token of the vocabulary glues an email
\* to another part.
email_pattern ==
    [ atoms |-> {"x@y.com"}, min_len |-> 0,
      bounded |-> FALSE, rest |-> FALSE, blanks |-> FALSE ]
phone_pattern ==
    [ atoms |-> DigitRuns, min_len |-> PhoneMinLen,
      bounded |-> TRUE, rest |-> FALSE, blanks |-> TRUE ]
url_pattern ==
    [ atoms |-> {"https://a.com", "https://b.com", "www.c.com"}, min_len |-> 0,
      bounded |-> FALSE, rest |-> TRUE, blanks |-> FALSE ]

RECURSIVE TotalLen(_)
TotalLen(a) == IF a = <<>> THEN 0 ELSE Len(Head(a)) + TotalLen(Tail(a))

\* the parts i..j of the line are a match of the pattern
IsMatch(a, pat, i, j) ==
    /\ i <= j
    /\ a[i] \in pat.atoms
    /\ IF pat.rest
       THEN /\ \A k \in i..j : a[k] # " "
            /\ j = Len(a) \/ a[j + 1] = " "
       ELSE IF pat.blanks
       THEN /\ a[j] \in pat.atoms
            /\ \A k \in i..j : a[k] \in pat.atoms \cup {" "}
       ELSE j = i
    /\ (pat.bounded /\ i > 1) => ~EndsWithWord(a[i - 1])
    /\ (pat.bounded /\ j < Len(a)) => ~StartsWithWord(a[j + 1])
    /\ TotalLen(SubSeq(a, i, j)) >= pat.min_len

\* the matches found scanning the line from part `from`: leftmost first,
\* each as long as possible, none overlapping
RECURSIVE Matches(_, _, _)
Matches(a, pat, from) ==
    IF from > Len(a) THEN {}
    ELSE LET ends == {j \in from..Len(a) : IsMatch(a, pat, from, j)}
         IN  IF ends = {} THEN Matches(a, pat, from + 1)
             ELSE LET last == CHOOSE j \in ends : \A k \in ends : k <= j
                  IN  {<<from, last>>} \cup Matches(a, pat, last + 1)

\* the line with every match replaced by repl
RECURSIVE Replace(_, _, _, _)
Replace(a, ms, repl, from) ==
    IF from > Len(a) THEN <<>>
    ELSE IF \E m \in ms : m[1] = from
    THEN LET m == CHOOSE x \in ms : x[1] = from
         IN  <<repl>> \o Replace(a, ms, repl, m[2] + 1)
    ELSE <<a[from]>> \o Replace(a, ms, repl, from + 1)

\* pattern.sub(repl, text) and pattern.search(text)
Sub(toks, pat, repl) ==
    LET a == Line(toks) IN Unline(Replace(a, Matches(a, pat, 1), repl, 1))
Search(toks, pat) == Matches(Line(toks), pat, 1) # {}

\* pattern.findall(text) as the tokens in which a match begins; it is used
\* with url_pattern, which matches at most once per token
FindAll(toks, pat) == {i \in 1..Len(toks) : Matches(Atoms(toks[i]), pat, 1) # {}}

\* ------------------------------------------------------------ classifiers
ToxThreshold == 70
RelThreshold == 45

\* score formatted with {:.2f}; scores are hundredths in 0..100
Fmt2(s) ==
    IF s >= 100 THEN "1.00"
    ELSE IF s < 10 THEN "0.0" \o ToString(s)
    ELSE "0." \o ToString(s)

\* behaviour of a pipeline on one call: the model fails to load, the
\* inference raises, or a result comes back
ToxResult(label, score) == [ kind |-> "ok", label |-> label, score |-> score ]
RelResult(tech, search, growth) == [ kind |-> "ok", scores |-> <<tech, search, growth>> ]
ToxLoadFail == [ kind |-> "load_fail", label |-> "", score |-> 0 ]
ToxInferFail == [ kind |-> "infer_fail", label |-> "", score |-> 0 ]
RelLoadFail == [ kind |-> "load_fail", scores |-> <<0, 0, 0>> ]
RelInferFail == [ kind |-> "infer_fail", scores |-> <<0, 0, 0>> ]

\* outcomes of clf(text[:512])[0] for the toxicity pipeline
ToxOutcomes ==
    {ToxLoadFail, ToxInferFail}
    \cup {ToxResult(l, s) : l \in {"toxic", "neutral", "NEGATIVE"}, s \in {69, 70}}

\* outcomes of the zero-shot pipeline: scores of the three on-topic labels
RelOutcomes ==
    {RelLoadFail, RelInferFail}
    \cup {RelResult(44, 10, 10), RelResult(10, 45, 10), RelResult(10, 10, 46)}

Failed(outcome) == outcome.kind # "ok"

Max2(a, b) == IF a >= b THEN a ELSE b

\* ------------------------------------------------------ content_validator
\* reasons.append(r) under condition c
AppendIf(c, r) == IF c THEN <<r>> ELSE <<>>

\* `"toxic" in label or "negative" in label` on the lower-cased label
LabelIsToxic(label) == LowerTok(label) \in {"toxic", "negative"}

\* a handler that treats a failing classifier as a flag
model_flagged_on_failure(tox) ==
    IF Failed(tox) THEN TRUE
    ELSE LabelIsToxic(tox.label) /\ tox.score >= ToxThreshold

\* the comparison that leaves out a score equal to the threshold
model_flagged_above(tox) ==
    IF Failed(tox) THEN FALSE
    ELSE LabelIsToxic(tox.label) /\ tox.score > ToxThreshold

\* the try-block of check_safety: TRUE iff the model flagged the text
model_flagged(tox) ==
    IF Failed(tox) THEN FALSE
    ELSE LabelIsToxic(tox.label) /\ tox.score >= ToxThreshold

model_reason(tox) ==
    "model flagged text as " \o LowerTok(tox.label) \o " (score " \o Fmt2(tox.score) \o ")"

check_safety(text, tox) ==
    LET keywords == _get_keywords
        lowered == Lower(text)
        hate == ContainsAny(lowered, keywords.hate)
        threats == ContainsAny(lowered, keywords.threats)
        self_harm == ContainsAny(lowered, keywords.self_harm)
        illegal == ContainsAny(lowered, keywords.illegal_advice)
        flagged == model_flagged(tox)
    IN  [ is_critical |-> hate \/ threats \/ self_harm \/ illegal \/ flagged,
          reasons |-> AppendIf(hate, "hate / harassment language (keyword)")
                      \o AppendIf(threats, "threatening language (keyword)")
                      \o AppendIf(self_harm, "self-harm language (keyword)")
                      \o AppendIf(illegal, "illegal or unethical advice (keyword)")
                      \o AppendIf(flagged, model_reason(tox)) ]

\* one step `if pattern.search(cleaned): cleaned = pattern.sub(repl, cleaned);
\* had_pii = True` of check_pii on its locals
redact(locals, pat, repl) ==
    IF Search(locals.cleaned, pat)
    THEN [ cleaned |-> Sub(locals.cleaned, pat, repl), had_pii |-> TRUE ]
    ELSE locals

\* the reasons and the returned dictionary of check_pii
pii_return(locals) ==
    [ cleaned_text |-> locals.cleaned,
      had_pii |-> locals.had_pii,
      reasons |-> AppendIf(locals.had_pii, "contains PII (auto-redacted)") ]

\* check_pii without its third substitution: links stay in the text
check_pii_links_kept(text) ==
    pii_return(redact(redact([ cleaned |-> text, had_pii |-> FALSE ],
                             email_pattern, "[EMAIL]"),
                      phone_pattern, "[PHONE]"))

check_pii(text) ==
    pii_return(redact(redact(redact([ cleaned |-> text, had_pii |-> FALSE ],
                                    email_pattern, "[EMAIL]"),
                             phone_pattern, "[PHONE]"),
                      url_pattern, "[URL]"))

check_spam(text) ==
    LET keywords == _get_keywords
        lowered == Lower(text)
        urls == FindAll(text, url_pattern)
        many == Cardinality(urls) >= 2
        promo == ContainsAny(lowered, keywords.promo)
        is_spam == many \/ promo
    IN  [ is_spam |-> is_spam,
          reasons |-> AppendIf(many, "many links (possible promotion)")
                      \o AppendIf(promo, "promotional language")
                      \o AppendIf(~is_spam /\ Cardinality(urls) = 1,
                                  "contains link (needs review)") ]

\* text.strip() and removal of one layer of wrapping quotes
StripQuotes(text) ==
    IF Len(text) >= 1
       /\ \/ (Head(text) = "\"" /\ text[Len(text)] = "\"")
          \/ (Head(text) = "'" /\ text[Len(text)] = "'")
    THEN SubSeq(text, 2, Len(text) - 1)
    ELSE text

\* check_relevance with a score equal to the threshold counted as too low
check_relevance_inclusive(text, rel) ==
    IF Failed(rel)
    THEN [ raised |-> TRUE, is_off_topic |-> FALSE, reasons |-> <<>> ]
    ELSE LET cleaned_text == StripQuotes(text)
             career_score == Max2(rel.scores[1], Max2(rel.scores[2], rel.scores[3]))
             lowered == Lower(cleaned_text)
             has_career_words == ContainsAny(lowered, career_keywords)
             off_topic == (career_score <= RelThreshold) \/ ~has_career_words
         IN  [ raised |-> FALSE,
               is_off_topic |-> off_topic,
               reasons |->
                   IF ~has_career_words
                   THEN <<"may be off-topic (no career-related words found)">>
                   ELSE IF off_topic
                   THEN <<"may be off-topic (career relevance score "
                          \o Fmt2(career_score) \o ")">>
                   ELSE <<>> ]

\* check_relevance has no exception handler: a pipeline that fails to load
\* or raises at inference makes the call raise
check_relevance(text, rel) ==
    IF Failed(rel)
    THEN [ raised |-> TRUE, is_off_topic |-> FALSE, reasons |-> <<>> ]
    ELSE LET cleaned_text == StripQuotes(text)
             career_score == Max2(rel.scores[1], Max2(rel.scores[2], rel.scores[3]))
             lowered == Lower(cleaned_text)
             has_career_words == ContainsAny(lowered, career_keywords)
             off_topic == (career_score < RelThreshold) \/ ~has_career_words
         IN  [ raised |-> FALSE,
               is_off_topic |-> off_topic,
               reasons |->
                   IF ~has_career_words
                   THEN <<"may be off-topic (no career-related words found)">>
                   ELSE IF off_topic
                   THEN <<"may be off-topic (career relevance score "
                          \o Fmt2(career_score) \o ")">>
                   ELSE <<>> ]

\* "; ".join(parts) as the sequence of its segments
RECURSIVE Join(_)
Join(parts) ==
    IF Len(parts) = 0 THEN <<>>
    ELSE IF Len(parts) = 1 THEN parts
    ELSE <<Head(parts), "; ">> \o Join(Tail(parts))

utcnow == "utcnow"

\* all_reasons with the safety reasons collected before the PII reasons
all_reasons_safety_first(pii_result, safety_result, spam_result, relevance_result) ==
    safety_result.reasons \o pii_result.reasons
    \o spam_result.reasons \o relevance_result.reasons

all_reasons(pii_result, safety_result, spam_result, relevance_result) ==
    pii_result.reasons \o safety_result.reasons
    \o spam_result.reasons \o relevance_result.reasons

\* the chain with the spam test before the safety test
decide_spam_first(pii_result, safety_result, spam_result, relevance_result, now) ==
    IF spam_result.is_spam
    THEN [ severity |-> Some("medium"), status |-> "pending", flagged_at |-> Some(now) ]
    ELSE IF safety_result.is_critical
    THEN [ severity |-> Some("critical"), status |-> "pending", flagged_at |-> Some(now) ]
    ELSE IF relevance_result.is_off_topic
    THEN [ severity |-> Some("low"), status |-> "pending", flagged_at |-> Some(now) ]
    ELSE IF pii_result.had_pii
    THEN [ severity |-> Some("medium"), status |-> "pending", flagged_at |-> Some(now) ]
    ELSE [ severity |-> None, status |-> "approved", flagged_at |-> None ]

\* the chain whose PII branch forgets to set the status
decide_pii_status_unset(pii_result, safety_result, spam_result, relevance_result, now) ==
    IF safety_result.is_critical
    THEN [ severity |-> Some("critical"), status |-> "pending", flagged_at |-> Some(now) ]
    ELSE IF spam_result.is_spam
    THEN [ severity |-> Some("medium"), status |-> "pending", flagged_at |-> Some(now) ]
    ELSE IF relevance_result.is_off_topic
    THEN [ severity |-> Some("low"), status |-> "pending", flagged_at |-> Some(now) ]
    ELSE IF pii_result.had_pii
    THEN [ severity |-> Some("medium"), status |-> "approved", flagged_at |-> Some(now) ]
    ELSE [ severity |-> None, status |-> "approved", flagged_at |-> None ]

\* the if/elif chain of validate_experience
decide(pii_result, safety_result, spam_result, relevance_result, now) ==
    IF safety_result.is_critical
    THEN [ severity |-> Some("critical"), status |-> "pending", flagged_at |-> Some(now) ]
    ELSE IF spam_result.is_spam
    THEN [ severity |-> Some("medium"), status |-> "pending", flagged_at |-> Some(now) ]
    ELSE IF relevance_result.is_off_topic
    THEN [ severity |-> Some("low"), status |-> "pending", flagged_at |-> Some(now) ]
    ELSE IF pii_result.had_pii
    THEN [ severity |-> Some("medium"), status |-> "pending", flagged_at |-> Some(now) ]
    ELSE [ severity |-> None, status |-> "approved", flagged_at |-> None ]

flagged_reason(reasons) == IF reasons # <<>> THEN Some(Join(reasons)) ELSE None

\* the three checks that run on the cleaned text
stages_after_pii(pii_result, tox, rel) ==
    [ pii |-> pii_result,
      safety |-> check_safety(pii_result.cleaned_text, tox),
      spam |-> check_spam(pii_result.cleaned_text),
      relevance |-> check_relevance(pii_result.cleaned_text, rel) ]

Stages(text, tox, rel) == stages_after_pii(check_pii(text), tox, rel)

NoVerdict ==
    [ raised |-> TRUE, cleaned_text |-> <<>>, status |-> "", severity |-> None,
      flagged_reason |-> None, flagged_at |-> None ]

\* the decision and the returned dictionary, from the results of the stages
verdict(st, now) ==
    LET d == decide(st.pii, st.safety, st.spam, st.relevance, now)
    IN  IF st.relevance.raised THEN NoVerdict
        ELSE [ raised |-> FALSE,
               cleaned_text |-> st.pii.cleaned_text,
               status |-> d.status,
               severity |-> d.severity,
               flagged_reason |->
                   flagged_reason(all_reasons(st.pii, st.safety, st.spam, st.relevance)),
               flagged_at |-> d.flagged_at ]

validate_experience(text, tox, rel) == verdict(Stages(text, tox, rel), utcnow)

\* ------------------------------------------------- lazily loaded pipelines
\* request and background-task threads of the worker pool, and the two
\* module globals, named as in the source
Threads == 1..MaxThreads
PipelineNames == {"toxicity_pipeline", "relevance_pipeline"}

ThreadIdle == [ pc |-> "idle", name |-> "", calls |-> 0, returned |-> None ]

PipelinesIdle ==
    /\ globals = [n \in PipelineNames |-> None]
    /\ threads = [t \in Threads |-> ThreadIdle]
    /\ constructed = [n \in PipelineNames |-> 0]

\* a thread enters _get_toxicity_pipeline or _get_relevance_pipeline and
\* evaluates `if <global> is None`
_get_pipeline_test(t, name) ==
    /\ threads[t].pc = "idle"
    /\ threads[t].calls < MaxCalls
    /\ threads' = [threads EXCEPT ![t] =
                      [ pc |-> IF globals[name] = None THEN "load" ELSE "return",
                        name |-> name,
                        calls |-> threads[t].calls + 1,
                        returned |-> None ]]
    /\ UNCHANGED <<globals, constructed>>
    /\ UNCHANGED <<vtext, vtox, vrel, vpc, vstages, vresult, svars, cvars>>

\* `<global> = pipeline(...)`: the model is loaded and a new pipeline object
\* is assigned to the global, or pipeline(...) raises and the call ends
_get_pipeline_load(t, loaded) ==
    /\ threads[t].pc = "load"
    /\ IF loaded
       THEN /\ constructed' =
                  [constructed EXCEPT ![threads[t].name] = constructed[threads[t].name] + 1]
            /\ globals' =
                  [globals EXCEPT ![threads[t].name] = Some(constructed[threads[t].name] + 1)]
            /\ threads' = [threads EXCEPT ![t].pc = "return"]
       ELSE /\ threads' = [threads EXCEPT ![t].pc = "idle"]
            /\ UNCHANGED <<globals, constructed>>
    /\ UNCHANGED <<vtext, vtox, vrel, vpc, vstages, vresult, svars, cvars>>

\* `return <global>`
_get_pipeline_return(t) ==
    /\ threads[t].pc = "return"
    /\ threads' = [threads EXCEPT ![t].pc = "idle",
                                  ![t].returned = globals[threads[t].name]]
    /\ UNCHANGED <<globals, constructed>>
    /\ UNCHANGED <<vtext, vtox, vrel, vpc, vstages, vresult, svars, cvars>>

\* ------------------------------------------------------------ corpus store
Vecs == 1..MaxVec
ExpIds == 1..MaxExp
PostIds == 1..MaxPosts

\* descriptions a client may submit
SampleTexts == { <<"job">>, <<"job", "x@y.com">> }

\* classifier behaviours seen by a background moderation pass
TaskToxOutcomes == {ToxLoadFail, ToxResult("neutral", 70)}
TaskRelOutcomes == {RelLoadFail, RelResult(10, 10, 46)}

\* len(text) of a text of tokens separated by single blanks
TextLen(toks) == TotalLen(toks) + (IF toks = <<>> THEN 0 ELSE Len(toks) - 1)

\* text[:n] as tokens; a cut right after a blank leaves an empty last token
RECURSIVE FirstChars(_, _)
FirstChars(toks, n) ==
    IF toks = <<>> \/ n <= 0 THEN <<>>
    ELSE IF Len(Head(toks)) >= n THEN <<SubSeq(Head(toks), 1, n)>>
    ELSE IF Len(Head(toks)) + 1 = n /\ Tail(toks) # <<>> THEN <<Head(toks), "">>
    ELSE <<Head(toks)>> \o FirstChars(Tail(toks), n - Len(Head(toks)) - 1)

\* title_source[:100] + "..." if len(title_source) > 100 else title_source
TitleLength == 100
title_of(title_source) ==
    IF TextLen(title_source) > TitleLength
    THEN LET cut == FirstChars(title_source, TitleLength)
         IN  SubSeq(cut, 1, Len(cut) - 1) \o <<cut[Len(cut)] \o "...">>
    ELSE title_source

\* UserExperience(title=title, text=original_text, ...) with the column defaults
UserExperience(title, original_text) ==
    [ title |-> title,
      text |-> original_text,
      status |-> "approved",
      severity |-> None,
      flagged_reason |-> None,
      flagged_at |-> None,
      embedding |-> None ]

Post == [ embedding |-> None ]

NoQuery == [ pc |-> "idle", q |-> 0, fault |-> "none", raised |-> FALSE, documents |-> <<>> ]
JobIdle == [ pc |-> "idle", rows |-> {} ]

StoreInit ==
    /\ experiences = <<>>
    /\ posts = [p \in PostIds |-> Post]
    /\ tasks = <<>>
    /\ job = JobIdle
    /\ query = NoQuery

ValidateIdle ==
    /\ vtext = <<>>
    /\ vtox = ToxLoadFail
    /\ vrel = RelLoadFail
    /\ vpc = "idle"
    /\ vstages = <<>>
    /\ vresult = NoVerdict
    /\ PipelinesIdle

NoCall == [ fn |-> "none" ]

CallIdle ==
    /\ call = NoCall
    /\ ret = <<>>

Init == StoreInit /\ ValidateIdle /\ CallIdle

\* POST /api/experiences: the row is committed with the column defaults and
\* the moderation pass is queued as a background task
submit_experience(description) ==
    /\ LET original_text == description
           title == title_of(original_text)
           new_experience == UserExperience(title, original_text)
       IN  /\ experiences' = Append(experiences, new_experience)
           /\ tasks' = Append(tasks, [ pos |-> "queued", original_text |-> original_text ])
    /\ UNCHANGED <<posts, job, query>>
    /\ UNCHANGED <<vvars, cvars>>

\* a pass without db.rollback(): what it assigned before the commit failed
\* reaches the table with the next flush
run_experience_validation_no_rollback(experience_id, tox, rel, commit_ok) ==
    /\ experience_id \in DOMAIN tasks
    /\ tasks[experience_id].pos = "queued"
    /\ \E validation \in {validate_experience(tasks[experience_id].original_text, tox, rel)} :
           IF validation.raised
           THEN /\ experiences' = experiences
                /\ tasks' = [tasks EXCEPT ![experience_id].pos = "failed"]
           ELSE /\ experiences' =
                      [experiences EXCEPT ![experience_id].text = validation.cleaned_text,
                                          ![experience_id].status = validation.status]
                /\ tasks' = [tasks EXCEPT ![experience_id].pos =
                                 IF commit_ok THEN "done" ELSE "failed"]
    /\ UNCHANGED <<posts, job, query>>
    /\ UNCHANGED <<vvars, cvars>>

\* the background task: commits the verdict, or rolls back on any exception
run_experience_validation(experience_id, tox, rel, commit_ok) ==
    /\ experience_id \in DOMAIN tasks
    /\ tasks[experience_id].pos = "queued"
    /\ \E validation \in {validate_experience(tasks[experience_id].original_text, tox, rel)} :
           LET experience == experiences[experience_id]
           IN  IF validation.raised \/ ~commit_ok
               THEN /\ experiences' = experiences
                    /\ tasks' = [tasks EXCEPT ![experience_id].pos = "failed"]
               ELSE /\ experiences' =
                          [experiences EXCEPT ![experience_id] =
                              [experience EXCEPT !.text = validation.cleaned_text,
                                                 !.status = validation.status,
                                                 !.severity = validation.severity,
                                                 !.flagged_reason = validation.flagged_reason,
                                                 !.flagged_at = validation.flagged_at]]
                    /\ tasks' = [tasks EXCEPT ![experience_id].pos = "done"]
    /\ UNCHANGED <<posts, job, query>>
    /\ UNCHANGED <<vvars, cvars>>

\* PUT /api/admin/experiences/{id}/approve
approve_experience(experience_id) ==
    /\ experience_id \in DOMAIN experiences
    /\ experiences' = [experiences EXCEPT ![experience_id].status = "approved"]
    /\ UNCHANGED <<posts, tasks, job, query>>
    /\ UNCHANGED <<vvars, cvars>>

\* PUT /api/admin/experiences/{id}/reject
reject_experience(experience_id) ==
    /\ experience_id \in DOMAIN experiences
    /\ experiences' = [experiences EXCEPT ![experience_id].status = "rejected"]
    /\ UNCHANGED <<posts, tasks, job, query>>
    /\ UNCHANGED <<vvars, cvars>>

\* embeddings.embed_query(combined_text) for the text of post p: the posts'
\* texts are fixed, the embedder is deterministic
PostEmbedding(p) == ((p - 1) % MaxVec) + 1

\* generate_post_and_comment_embeddings: every post without an embedding gets one
generate_post_and_comment_embeddings ==
    /\ \E p \in PostIds : posts[p].embedding = None
    /\ posts' = [p \in PostIds |->
                    IF posts[p].embedding # None THEN posts[p]
                    ELSE [posts[p] EXCEPT !.embedding = Some(PostEmbedding(p))]]
    /\ UNCHANGED <<experiences, tasks, job, query>>
    /\ UNCHANGED <<vvars, cvars>>

\* rows selected by the query of generate_user_experience_embeddings that the
\* loop does not skip
JobSelect(status_filter) ==
    { i \in DOMAIN experiences :
          /\ experiences[i].embedding = None
          /\ experiences[i].status = status_filter
          /\ experiences[i].text # <<>> }

\* generate_user_experience_embeddings, first half: query.all() loads the rows
generate_user_experience_embeddings_load ==
    /\ job.pc = "idle"
    /\ JobSelect("approved") # {}
    /\ job' = [ pc |-> "loaded", rows |-> JobSelect("approved") ]
    /\ UNCHANGED <<experiences, posts, tasks, query>>
    /\ UNCHANGED <<vvars, cvars>>

\* second half: the embeddings are computed and db.commit() writes the
\* embedding column of every loaded row
generate_user_experience_embeddings_commit ==
    /\ job.pc = "loaded"
    /\ \E embed \in [job.rows -> Vecs] :
           experiences' = [i \in DOMAIN experiences |->
                              IF i \in job.rows
                              THEN [experiences[i] EXCEPT !.embedding = Some(embed[i])]
                              ELSE experiences[i]]
    /\ job' = JobIdle
    /\ UNCHANGED <<posts, tasks, query>>
    /\ UNCHANGED <<vvars, cvars>>

\* --------------------------------------------------------------- retriever
\* k of the retriever built by build_rag_chain
RetrieverK == 2

PostItem(p) == [ source_type |-> "post", item_id |-> p ]
ExperienceItem(i) == [ source_type |-> "user_experience", item_id |-> i ]

\* first branch of the UNION ALL: posts WHERE embedding IS NOT NULL
SelectPosts == { PostItem(p) : p \in {x \in PostIds : posts[x].embedding # None} }

\* the second branch without its status condition
SelectExperiences_any_status ==
    { ExperienceItem(i) : i \in {x \in DOMAIN experiences : experiences[x].embedding # None} }

\* second branch: user_experiences WHERE embedding IS NOT NULL AND status = 'approved'
SelectExperiences ==
    { ExperienceItem(i) : i \in {x \in DOMAIN experiences :
                                    /\ experiences[x].embedding # None
                                    /\ experiences[x].status = "approved"} }

ItemEmbedding(item) ==
    IF item.source_type = "post"
    THEN posts[item.item_id].embedding[1]
    ELSE experiences[item.item_id].embedding[1]

\* embedding <=> query_embedding
Distance(item, q) ==
    LET e == ItemEmbedding(item) IN IF e >= q THEN e - q ELSE q - e

Min2(a, b) == IF a <= b THEN a ELSE b

\* the row sequences of length min(n, |rows|) in ascending distance that hold
\* the closest rows (rows at equal distance come in any order)
Ranked(rows, q, n) ==
    LET m == Min2(n, Cardinality(rows))
    IN  { r \in [1..m -> rows] :
            /\ \A i, j \in 1..m : i < j => r[i] # r[j] /\ Distance(r[i], q) <= Distance(r[j], q)
            /\ \A x \in rows :
                   (\A i \in 1..m : r[i] # x) =>
                       \A i \in 1..m : Distance(r[i], q) <= Distance(x, q) }

\* LIMIT applied to each branch of the UNION instead of the ordered whole
OrderByLimit_per_source(combined, q, k) ==
    { a \o b : a \in Ranked({x \in combined : x.source_type = "post"}, q, k),
               b \in Ranked({x \in combined : x.source_type # "post"}, q, k) }

\* ORDER BY embedding <=> query LIMIT k over combined_results: every row
\* sequence the database may return
OrderByLimit(combined, q, k) == Ranked(combined, q, k)

\* a handler that turns the failure into an empty result
get_relevant_documents_swallow(q, fault) ==
    IF fault # "none"
    THEN { [ raised |-> FALSE, documents |-> <<>> ] }
    ELSE { [ raised |-> FALSE, documents |-> r ] :
               r \in OrderByLimit(SelectPosts \cup SelectExperiences, q, RetrieverK) }

\* _get_relevant_documents: the possible outcomes of one call; a failing
\* embed_query or conn.execute raises, nothing catches it
get_relevant_documents(q, fault) ==
    IF fault # "none"
    THEN { [ raised |-> TRUE, documents |-> <<>> ] }
    ELSE { [ raised |-> FALSE, documents |-> r ] :
               r \in OrderByLimit(SelectPosts \cup SelectExperiences, q, RetrieverK) }

Faults == {"none", "embed", "db"}

\* the chain invokes the retriever
retriever_invoke ==
    /\ query.pc = "idle"
    /\ \E q \in Vecs, fault \in Faults :
          \E out \in get_relevant_documents(q, fault) :
              query' = [ pc |-> "returned", q |-> q, fault |-> fault,
                         raised |-> out.raised, documents |-> out.documents ]
    /\ UNCHANGED <<experiences, posts, tasks, job>>
    /\ UNCHANGED <<vvars, cvars>>

\* the chain takes the documents (or the exception) and the call is over
retriever_return ==
    /\ query.pc = "returned"
    /\ query' = NoQuery
    /\ UNCHANGED <<experiences, posts, tasks, job>>
    /\ UNCHANGED <<vvars, cvars>>

Next ==
    \/ \E d \in SampleTexts : Len(experiences) < MaxExp /\ submit_experience(d)
    \/ \E i \in ExpIds, tox \in TaskToxOutcomes, rel \in TaskRelOutcomes, ok \in BOOLEAN :
           run_experience_validation(i, tox, rel, ok)
    \/ \E i \in ExpIds : approve_experience(i)
    \/ \E i \in ExpIds : reject_experience(i)
    \/ generate_post_and_comment_embeddings
    \/ generate_user_experience_embeddings_load
    \/ generate_user_experience_embeddings_commit
    \/ retriever_invoke
    \/ retriever_return

Spec == Init /\ [][Next]_vars

\* ------------------------------------------- validate_experience in isolation
Vocabulary ==
    {"hello", "job", "Stupid", "discount",
     "https://a.com", "https://b.com", "x@y.com", "555-123-4567"}

InitValidate ==
    /\ StoreInit
    /\ CallIdle
    /\ vtext \in SeqsUpTo(Vocabulary, MaxLen)
    /\ vtox \in ToxOutcomes
    /\ vrel \in RelOutcomes
    /\ vpc = "start"
    /\ vstages = <<>>
    /\ vresult = NoVerdict
    /\ PipelinesIdle

\* one call validate_experience(vtext)
validate_call ==
    /\ vpc = "start"
    /\ vstages' = Stages(vtext, vtox, vrel)
    /\ vresult' = validate_experience(vtext, vtox, vrel)
    /\ vpc' = "done"
    /\ UNCHANGED <<vtext, vtox, vrel>>
    /\ UNCHANGED <<svars, cvars, pvars>>

NextValidate == validate_call

SpecValidate == InitValidate /\ [][NextValidate]_vars

\* ------------------------------------------------- functions called on their own
MaxPhrases == 4

RECURSIVE Flatten(_)
Flatten(ps) == IF ps = <<>> THEN <<>> ELSE Head(ps) \o Flatten(Tail(ps))

\* the texts made of at most MaxPhrases of the given phrases
TextsOf(phrases) == { Flatten(ps) : ps \in SeqsUpTo(phrases, MaxPhrases) }

SpamPhrases ==
    {<<"hello">>, <<"discount">>, <<"promo", "code">>, <<"https://a.com">>, <<"www.c.com">>}
SafetyPhrases ==
    {<<"hello">>, <<"Stupid">>, <<"kill", "you">>, <<"kill", "myself">>, <<"bribe">>}
RelevancePhrases == {<<"hello">>, <<"JOB">>, <<"software", "engineer">>, <<"\"">>}
PiiPhrases ==
    {<<"hello">>, <<"x@y.com">>, <<"555-123-4567">>, <<"555-1234">>,
     <<"https://a.com">>, <<"5551234567www.c.com">>}

SpamCalls == { [ fn |-> "check_spam", text |-> t ] : t \in TextsOf(SpamPhrases) }
SafetyCalls ==
    { [ fn |-> "check_safety", text |-> t, tox |-> o ] :
          t \in TextsOf(SafetyPhrases), o \in ToxOutcomes }
RelevanceCalls ==
    { [ fn |-> "check_relevance", text |-> t, rel |-> o ] :
          t \in TextsOf(RelevancePhrases), o \in RelOutcomes }
PiiCalls == { [ fn |-> "check_pii", text |-> t ] : t \in TextsOf(PiiPhrases) }

check_spam_call ==
    /\ call.fn = "check_spam"
    /\ ret = <<>>
    /\ ret' = <<check_spam(call.text)>>
    /\ UNCHANGED <<call, vvars, svars>>

check_safety_call ==
    /\ call.fn = "check_safety"
    /\ ret = <<>>
    /\ ret' = <<check_safety(call.text, call.tox)>>
    /\ UNCHANGED <<call, vvars, svars>>

check_relevance_call ==
    /\ call.fn = "check_relevance"
    /\ ret = <<>>
    /\ ret' = <<check_relevance(call.text, call.rel)>>
    /\ UNCHANGED <<call, vvars, svars>>

\* check_pii on the text, then check_pii on the cleaned_text it returned
check_pii_call ==
    /\ call.fn = "check_pii"
    /\ Len(ret) < 2
    /\ LET text == IF ret = <<>> THEN call.text ELSE ret[Len(ret)].cleaned_text
       IN  ret' = Append(ret, check_pii(text))
    /\ UNCHANGED <<call, vvars, svars>>

\* ----------------------------------------------------- _truncate_text on its own
MaxChars == 5

TruncationMarker == "... [truncated]"

\* text[:n]
Prefix(text, n) == SubSeq(text, 1, Min2(n, Len(text)))

\* s.rsplit(' ', 1)[0]: s up to its last space, or all of s without a space
RsplitHead(s) ==
    LET spaces == {i \in 1..Len(s) : SubSeq(s, i, i) = " "}
    IN  IF spaces = {} THEN s
        ELSE SubSeq(s, 1, (CHOOSE i \in spaces : \A j \in spaces : j <= i) - 1)

\* the cut made at max_length whatever the character there
_truncate_text_hard_cut(text, max_length) ==
    IF Len(text) <= max_length THEN text
    ELSE Prefix(text, max_length) \o TruncationMarker

_truncate_text(text, max_length) ==
    IF Len(text) <= max_length THEN text
    ELSE LET truncated == RsplitHead(Prefix(text, max_length))
         IN  truncated \o TruncationMarker

RECURSIVE StringsUpTo(_, _)
StringsUpTo(chars, n) ==
    IF n = 0 THEN {""}
    ELSE LET shorter == StringsUpTo(chars, n - 1)
         IN  shorter \cup {s \o c : s \in {u \in shorter : Len(u) = n - 1}, c \in chars}

TruncateCalls ==
    { [ fn |-> "_truncate_text", text |-> t, max_length |-> n ] :
          t \in StringsUpTo({"a", " "}, MaxChars), n \in 0..MaxChars }

_truncate_text_call ==
    /\ call.fn = "_truncate_text"
    /\ ret = <<>>
    /\ ret' = <<_truncate_text(call.text, call.max_length)>>
    /\ UNCHANGED <<call, vvars, svars>>

\* ------------------------------------------- the documents built by the retriever
max_content_length == 1500
max_comments == 3

\* query.limit(n).all()
Limit(rows, n) == SubSeq(rows, 1, Min2(n, Len(rows)))

\* the loop `comment_text += f"\n{comment.text}"`
RECURSIVE comment_text(_)
comment_text(comments) ==
    IF comments = <<>> THEN ""
    ELSE "\n" \o Head(comments) \o comment_text(Tail(comments))

\* experience_type.replace('_', ' ') on the types of the sample
type_label(experience_type) ==
    IF experience_type = None THEN ""
    ELSE CASE experience_type[1] = "career_change" -> " (career change)"
           [] OTHER -> " (" \o experience_type[1] \o ")"

\* the body of the loop over the rows of _get_relevant_documents: `comments`
\* are the texts of the comments stored for the row's post
Document(row, comments) ==
    LET row_text == IF row.text = None THEN "" ELSE row.text[1]
        content_text == _truncate_text(row_text, max_content_length \div 2)
        max_comment_length == max_content_length \div 2
        fetched == IF row.item_id # None THEN Limit(comments, max_comments) ELSE <<>>
        joined == comment_text(fetched)
        content ==
            IF row.source_type = "post"
            THEN "Title: " \o row.title \o "\n\nPost: " \o content_text
                 \o (IF fetched = <<>> THEN ""
                     ELSE "\n\nComments and Responses:"
                          \o (IF Len(joined) > max_comment_length
                              THEN _truncate_text(joined, max_comment_length)
                              ELSE joined))
            ELSE "User Experience" \o type_label(row.experience_type) \o ": " \o content_text
    IN  [ page_content |-> _truncate_text(content, max_content_length),
          metadata |-> [ post_id |-> row.item_id,
                         url |-> IF row.source_type = "post" THEN row.url ELSE None,
                         source_type |-> row.source_type ] ]

\* n copies of s
RECURSIVE Rep(_, _)
Rep(s, n) ==
    IF n = 0 THEN ""
    ELSE IF n % 2 = 1 THEN s \o Rep(s, n - 1)
    ELSE LET half == Rep(s, n \div 2) IN half \o half

\* titles, bodies and comment lists of stored rows: empty, short, longer than
\* half the limit with and without spaces
RowTitles == {"Offer", Rep("negotiating ", 10)}
RowTexts == {None, Some("short text"), Some(Rep("interview ", 80)), Some(Rep("x", 800))}
RowComments ==
    {<<>>, <<"thanks">>, <<Rep("agreed ", 60), Rep("y", 400)>>,
     <<Rep("good luck ", 50), Rep("same here ", 50), Rep("z", 10), "fourth">>}

PostRows ==
    { [ source_type |-> "post", title |-> t, text |-> x, item_id |-> i,
        url |-> Some("https://reddit/p1"), experience_type |-> None ] :
          t \in RowTitles, x \in RowTexts, i \in {None, Some("p1")} }
ExperienceRows ==
    { [ source_type |-> "user_experience", title |-> t, text |-> x, item_id |-> Some("1"),
        url |-> None, experience_type |-> e ] :
          t \in RowTitles, x \in RowTexts, e \in {None, Some("career_change")} }

DocumentCalls ==
    { [ fn |-> "Document", row |-> r, comments |-> c ] : r \in PostRows, c \in RowComments }
    \cup { [ fn |-> "Document", row |-> r, comments |-> <<>> ] : r \in ExperienceRows }

Document_call ==
    /\ call.fn = "Document"
    /\ ret = <<>>
    /\ ret' = <<Document(call.row, call.comments)>>
    /\ UNCHANGED <<call, vvars, svars>>

\* ------------------------------------------------------------- ask_question
MaxHistory == 4

max_history_messages == 3

HumanMessage(content) == [ type |-> "human", content |-> content ]
AIMessage(content) == [ type |-> "ai", content |-> content ]

\* the bound that keeps the oldest messages
limit_history_oldest(chat_history) ==
    LET history == IF chat_history = None THEN <<>> ELSE chat_history[1]
    IN  IF Len(history) > max_history_messages
        THEN SubSeq(history, 1, max_history_messages)
        ELSE history

\* no bound at all: the history goes to the chain as it came
limit_history_unbounded(chat_history) ==
    IF chat_history = None THEN <<>> ELSE chat_history[1]

\* chat_history after the first two statements of ask_question: [] for
\* None, and chat_history[-max_history_messages:] when it is longer
limit_history(chat_history) ==
    LET history == IF chat_history = None THEN <<>> ELSE chat_history[1]
    IN  IF Len(history) > max_history_messages
        THEN SubSeq(history, Len(history) - max_history_messages + 1, Len(history))
        ELSE history

\* one entry for every chunk of the context, whether seen before or not
RECURSIVE collect_sources_every_chunk(_, _, _)
collect_sources_every_chunk(docs, seen_urls, seen_experiences) ==
    IF docs = <<>> THEN <<>>
    ELSE LET metadata == Head(docs).metadata
         IN  IF metadata.source_type = "user_experience"
             THEN IF metadata.post_id # None
                  THEN <<[ url |-> None, post_id |-> metadata.post_id,
                           source |-> "user_experience" ]>>
                       \o collect_sources_every_chunk(Tail(docs), seen_urls,
                                                      seen_experiences)
                  ELSE collect_sources_every_chunk(Tail(docs), seen_urls,
                                                   seen_experiences)
             ELSE IF metadata.url # None
                  THEN <<[ url |-> metadata.url, post_id |-> metadata.post_id,
                           source |-> "reddit" ]>>
                       \o collect_sources_every_chunk(Tail(docs), seen_urls,
                                                      seen_experiences)
                  ELSE collect_sources_every_chunk(Tail(docs), seen_urls,
                                                   seen_experiences)

\* the loop over result["context"]: one entry per post URL and per
\* submission id, in the order first seen (the fields date, score,
\* num_comments and experience_type are copied from the metadata and left out)
RECURSIVE collect_sources(_, _, _)
collect_sources(docs, seen_urls, seen_experiences) ==
    IF docs = <<>> THEN <<>>
    ELSE LET metadata == Head(docs).metadata
         IN  IF metadata.source_type = "user_experience"
             THEN LET exp_id == metadata.post_id
                  IN  IF exp_id # None /\ exp_id[1] \notin seen_experiences
                      THEN <<[ url |-> None, post_id |-> exp_id,
                               source |-> "user_experience" ]>>
                           \o collect_sources(Tail(docs), seen_urls,
                                              seen_experiences \cup {exp_id[1]})
                      ELSE collect_sources(Tail(docs), seen_urls, seen_experiences)
             ELSE LET url == metadata.url
                  IN  IF url # None /\ url[1] \notin seen_urls
                      THEN <<[ url |-> url, post_id |-> metadata.post_id,
                               source |-> "reddit" ]>>
                           \o collect_sources(Tail(docs), seen_urls \cup {url[1]},
                                              seen_experiences)
                      ELSE collect_sources(Tail(docs), seen_urls, seen_experiences)

\* rag_chain.invoke raises, or returns an answer with or without a context
ChainRaises == [ kind |-> "raise", answer |-> "", context |-> None ]
ChainResult(answer, context) == [ kind |-> "ok", answer |-> answer, context |-> context ]

\* ask_question: `invoked` is the argument of rag_chain.invoke
ask_question(chain, question, chat_history) ==
    LET history == limit_history(chat_history)
        invoked == [ input |-> question, chat_history |-> history ]
    IN  IF chain.kind # "ok"
        THEN [ raised |-> TRUE, invoked |-> invoked, answer |-> "",
               chat_history |-> <<>>, sources |-> <<>> ]
        ELSE [ raised |-> FALSE, invoked |-> invoked, answer |-> chain.answer,
               chat_history |->
                   history \o <<HumanMessage(question), AIMessage(chain.answer)>>,
               sources |-> IF chain.context = None THEN <<>>
                           ELSE collect_sources(chain.context[1], {}, {}) ]

\* metadata of retrieved documents
PostDoc == [ metadata |-> [ post_id |-> Some("p1"), url |-> Some("https://reddit/p1"),
                            source_type |-> "post" ] ]
ExperienceDoc == [ metadata |-> [ post_id |-> Some("1"), url |-> None,
                                  source_type |-> "user_experience" ] ]

ChainOutcomes ==
    {ChainRaises, ChainResult("answer", None), ChainResult("answer", Some(<<>>)),
     ChainResult("answer", Some(<<PostDoc, ExperienceDoc, PostDoc>>))}

\* the chunks a context is made of: two posts, a second chunk of the first
\* post under another post_id, two submissions, and a document without
\* metadata (read as a post with an empty url)
MaxDocs == 3
Docs ==
    {PostDoc, ExperienceDoc,
     [ metadata |-> [ post_id |-> Some("p2"), url |-> Some("https://reddit/p2"),
                      source_type |-> "post" ] ],
     [ metadata |-> [ post_id |-> Some("p3"), url |-> Some("https://reddit/p1"),
                      source_type |-> "post" ] ],
     [ metadata |-> [ post_id |-> Some("2"), url |-> None,
                      source_type |-> "user_experience" ] ],
     [ metadata |-> [ post_id |-> None, url |-> None, source_type |-> "post" ] ]}
Contexts == SeqsUpTo(Docs, MaxDocs)

Messages == {HumanMessage("first question"), AIMessage("first answer")}

AskCalls ==
    { [ fn |-> "ask_question", chain |-> c, question |-> "question", chat_history |-> h ] :
          c \in ChainOutcomes,
          h \in {None} \cup {Some(m) : m \in SeqsUpTo(Messages, MaxHistory)} }
    \cup
    { [ fn |-> "ask_question", chain |-> ChainResult("answer", Some(c)),
        question |-> "question", chat_history |-> None ] : c \in Contexts }

\* consecutive turns of one conversation: the first call gets the caller's
\* history, every later one the history the call before it returned
MaxTurns == 3

ask_question_call ==
    /\ call.fn = "ask_question"
    /\ Len(ret) < MaxTurns
    /\ ret # <<>> => ~ret[Len(ret)].raised
    /\ LET chat_history == IF ret = <<>> THEN call.chat_history
                           ELSE Some(ret[Len(ret)].chat_history)
       IN  ret' = Append(ret, ask_question(call.chain, call.question, chat_history))
    /\ UNCHANGED <<call, vvars, svars>>

\* ---------------------------------------------------------------- POST /ask
\* Source(**source): url is a required str, so a source whose url is None
\* fails validation; keys that are no fields of the model are ignored
Source(source) ==
    IF source.url = None
    THEN [ raised |-> TRUE, model |-> None ]
    ELSE [ raised |-> FALSE,
           model |-> Some([ url |-> source.url, post_id |-> source.post_id,
                            source |-> source.source ]) ]

\* parse_chat_history: user and assistant messages become LangChain messages
RECURSIVE parse_chat_history(_)
parse_chat_history(history) ==
    IF history = <<>> THEN <<>>
    ELSE (IF Head(history).role = "user" THEN <<HumanMessage(Head(history).content)>>
          ELSE IF Head(history).role = "assistant"
          THEN <<AIMessage(Head(history).content)>>
          ELSE <<>>)
         \o parse_chat_history(Tail(history))

\* the chain raises the provider's rate-limit error
ChainRateLimited == [ kind |-> "rate_limit", answer |-> "", context |-> None ]

\* the endpoint: 200 with answer and sources, 413 for a rate-limit error,
\* and any other exception re-raised, which the framework answers with 500
ask(chain, payload) ==
    LET result == ask_question(chain, payload.question,
                               Some(parse_chat_history(payload.chat_history)))
        source_models == [i \in 1..Len(result.sources) |-> Source(result.sources[i])]
    IN  IF result.raised
        THEN [ status_code |-> IF chain.kind = "rate_limit" THEN 413 ELSE 500,
               answer |-> "", sources |-> <<>> ]
        ELSE IF \E i \in 1..Len(source_models) : source_models[i].raised
        THEN [ status_code |-> 500, answer |-> "", sources |-> <<>> ]
        ELSE [ status_code |-> 200, answer |-> result.answer,
               sources |-> [i \in 1..Len(source_models) |-> source_models[i].model[1]] ]

\* requests: a short history and every chain outcome, every context included
AskRequests ==
    { [ question |-> "question", chat_history |-> h ] :
          h \in {<<>>, <<[ role |-> "user", content |-> "first question" ],
                         [ role |-> "assistant", content |-> "first answer" ]>>} }

AskEndpointCalls ==
    { [ fn |-> "ask", chain |-> c, payload |-> p ] :
          c \in ChainOutcomes \cup {ChainRateLimited}
                 \cup {ChainResult("answer", Some(x)) : x \in Contexts},
          p \in AskRequests }

ask_call ==
    /\ call.fn = "ask"
    /\ ret = <<>>
    /\ ret' = <<ask(call.chain, call.payload)>>
    /\ UNCHANGED <<call, vvars, svars>>

InitCalls ==
    /\ StoreInit
    /\ ValidateIdle
    /\ \/ call \in SpamCalls
       \/ call \in SafetyCalls
       \/ call \in RelevanceCalls
       \/ call \in PiiCalls
       \/ call \in TruncateCalls
       \/ call \in DocumentCalls
       \/ call \in AskCalls
       \/ call \in AskEndpointCalls
    /\ ret = <<>>

NextCalls ==
    \/ check_spam_call
    \/ check_safety_call
    \/ check_relevance_call
    \/ check_pii_call
    \/ _truncate_text_call
    \/ Document_call
    \/ ask_question_call
    \/ ask_call

SpecCalls == InitCalls /\ [][NextCalls]_vars

\* ------------------------------------------ the pipelines under concurrent use
\* the threads of one process call the two getters in any interleaving
InitPipelines == Init

NextPipelines ==
    \/ \E t \in Threads, name \in PipelineNames : _get_pipeline_test(t, name)
    \/ \E t \in Threads, loaded \in BOOLEAN : _get_pipeline_load(t, loaded)
    \/ \E t \in Threads : _get_pipeline_return(t)

SpecPipelines == InitPipelines /\ [][NextPipelines]_vars

\* ------------------------------------- submissions, their passes and the reviewer
\* several submissions, each with its own background pass, and the reviewer
\* acting on any of them at any time
MaxSubmissions == 2

\* a submission of more than 100 characters that starts with an address
LongTexts == { <<"x@y.com", Rep("a", TitleLength)>> }

InitModeration == Init

NextModeration ==
    \/ \E d \in SampleTexts \cup LongTexts :
           Len(experiences) < MaxSubmissions /\ submit_experience(d)
    \/ \E i \in 1..MaxSubmissions, tox \in TaskToxOutcomes, rel \in TaskRelOutcomes,
           ok \in BOOLEAN :
           run_experience_validation(i, tox, rel, ok)
    \/ \E i \in 1..MaxSubmissions : approve_experience(i)
    \/ \E i \in 1..MaxSubmissions : reject_experience(i)

SpecModeration == InitModeration /\ [][NextModeration]_vars

\* ------------------------------------------------------------------ claims
Range(f) == { f[i] : i \in DOMAIN f }
Returned == vpc = "done" /\ ~vresult.raised

\* C1: the severity of a verdict follows the strict priority over the stage
\* results: critical if the safety check is critical, else medium if spam,
\* else low if off-topic, else medium if PII was redacted, else no severity
\* and status approved.
C1_SeverityPriority ==
    Returned =>
        LET critical == vstages.safety.is_critical
            spam == vstages.spam.is_spam
            off == vstages.relevance.is_off_topic
            pii == vstages.pii.had_pii
        IN  /\ critical => vresult.severity = Some("critical")
            /\ (~critical /\ spam) => vresult.severity = Some("medium")
            /\ (~critical /\ ~spam /\ off) => vresult.severity = Some("low")
            /\ (~critical /\ ~spam /\ ~off /\ pii) => vresult.severity = Some("medium")
            /\ (~critical /\ ~spam /\ ~off /\ ~pii) =>
                   vresult.severity = None /\ vresult.status = "approved"

\* a verdict for a text that is critical, spam, off-topic and has PII at once
C1_Witness ==
    /\ Returned
    /\ vstages.safety.is_critical /\ vstages.spam.is_spam
    /\ vstages.relevance.is_off_topic /\ vstages.pii.had_pii
    /\ vresult.severity = Some("critical")

\* C2: in every verdict, status is pending exactly when a severity is set,
\* flagged_at is set exactly when status is pending, and status is approved
\* or pending.
C2_VerdictShape ==
    Returned =>
        /\ (vresult.status = "pending") <=> (vresult.severity # None)
        /\ (vresult.flagged_at # None) <=> (vresult.status = "pending")
        /\ vresult.status \in {"approved", "pending"}

\* a pending verdict that the PII branch alone decided
C2_Witness ==
    /\ Returned
    /\ vstages.pii.had_pii /\ ~vstages.safety.is_critical
    /\ ~vstages.spam.is_spam /\ ~vstages.relevance.is_off_topic
    /\ vresult.status = "pending" /\ vresult.flagged_at = Some(utcnow)

\* C3: validate_experience returns a verdict for every text and every
\* failure of a sub-classifier; it never raises.
C3_Total == vpc = "done" => ~vresult.raised

\* C9: flagged_reason is the reasons of the stages PII, safety, spam,
\* relevance, in that order, joined by "; ", and null exactly when no stage
\* gave a reason.
C9_FlaggedReason ==
    Returned =>
        LET rs == vstages.pii.reasons \o vstages.safety.reasons
                  \o vstages.spam.reasons \o vstages.relevance.reasons
        IN  /\ (vresult.flagged_reason = None) <=> (rs = <<>>)
            /\ rs # <<>> =>
                   LET fr == vresult.flagged_reason[1]
                   IN  /\ Len(fr) = 2 * Len(rs) - 1
                       /\ \A i \in 1..Len(rs) : fr[2 * i - 1] = rs[i]
                       /\ \A i \in 1..(Len(rs) - 1) : fr[2 * i] = "; "

\* a critical verdict whose flagged_reason still starts with the PII reason
C9_Witness ==
    /\ Returned
    /\ vresult.severity = Some("critical")
    /\ vstages.pii.had_pii
    /\ vresult.flagged_reason # None
    /\ Len(vresult.flagged_reason[1]) >= 3
    /\ vresult.flagged_reason[1][1] = "contains PII (auto-redacted)"

\* the reasons of check_spam that mention links
LinkReasons == {"many links (possible promotion)", "contains link (needs review)"}

\* C10: a text with exactly two distinct URLs, no promotional keyword and no
\* safety trigger gets status pending, severity medium and a flagged_reason
\* that mentions links.
C10_TwoLinksAreSpam ==
    ( /\ Returned
      /\ Cardinality({vtext[i] : i \in FindAll(vtext, url_pattern)}) = 2
      /\ Cardinality(FindAll(vtext, url_pattern)) = 2
      /\ ~ContainsAny(Lower(vtext), _get_keywords.promo)
      /\ ~vstages.safety.is_critical )
    => /\ vresult.status = "pending"
       /\ vresult.severity = Some("medium")
       /\ vresult.flagged_reason # None
       /\ \E r \in Range(vresult.flagged_reason[1]) : r \in LinkReasons

\* --- claims about the corpus store and the retriever
RetrieveStep == query.pc = "idle" /\ query'.pc = "returned"

\* C4: a background moderation pass that fails does not leave its
\* submission in status approved.
C4_FailedPassNotApproved ==
    [][ \A i \in DOMAIN tasks :
            (tasks[i].pos = "queued" /\ tasks'[i].pos = "failed")
                => experiences'[i].status # "approved" ]_vars

\* C5: a query returns only submissions whose status is approved, and every
\* approved submission with an embedding is a candidate of the query: it is
\* returned unless k rows at most as far from the query are.
C5_OnlyApprovedRetrieved ==
    [][ (RetrieveStep /\ ~query'.raised) =>
            LET docs == query'.documents
                q == query'.q
            IN  /\ \A d \in Range(docs) :
                       d.source_type = "user_experience"
                           => /\ experiences[d.item_id].status = "approved"
                              /\ experiences[d.item_id].embedding # None
                /\ \A i \in DOMAIN experiences :
                       (experiences[i].status = "approved" /\ experiences[i].embedding # None)
                           => \/ ExperienceItem(i) \in Range(docs)
                              \/ /\ Len(docs) = RetrieverK
                                 /\ \A d \in Range(docs) :
                                        Distance(d, q) <= Distance(ExperienceItem(i), q) ]_vars

\* a query has returned a submission that moderation had flagged (it carries
\* a severity) and a reviewer then approved
C5_Witness ==
    /\ query.pc = "returned" /\ ~query.raised
    /\ \E d \in Range(query.documents) :
           /\ d.source_type = "user_experience"
           /\ experiences[d.item_id].severity # None
           /\ experiences[d.item_id].status = "approved"

\* the rows a query may return: embedded posts and approved embedded submissions
EligibleItems ==
    { PostItem(p) : p \in {x \in PostIds : posts[x].embedding # None} }
    \cup { ExperienceItem(i) : i \in {x \in DOMAIN experiences :
                                         /\ experiences[x].embedding # None
                                         /\ experiences[x].status = "approved"} }

\* C6: the retriever returns min(k, number of eligible items) distinct
\* eligible items in ascending distance, from one ranking over posts and
\* submissions: a closer eligible item is never left out in favour of a
\* farther one and precedes it.
C6_TopKOverall ==
    [][ (RetrieveStep /\ ~query'.raised) =>
            LET docs == query'.documents
                q == query'.q
                n == Len(docs)
            IN  /\ n <= RetrieverK
                /\ n = Min2(RetrieverK, Cardinality(EligibleItems))
                /\ \A i \in 1..n : docs[i] \in EligibleItems
                /\ \A i, j \in 1..n : i < j => docs[i] # docs[j]
                /\ \A A \in EligibleItems : \A j \in 1..n :
                       Distance(A, q) < Distance(docs[j], q)
                           => \E i \in 1..(j - 1) : docs[i] = A ]_vars

\* k documents of both sources were returned while a farther eligible item
\* was left out
C6_Witness ==
    /\ query.pc = "returned" /\ ~query.raised
    /\ Len(query.documents) = RetrieverK
    /\ \E i, j \in 1..Len(query.documents) :
           query.documents[i].source_type # query.documents[j].source_type
    /\ \E x \in EligibleItems :
           /\ x \notin Range(query.documents)
           /\ \A d \in Range(query.documents) :
                  d \in EligibleItems /\ Distance(d, query.q) < Distance(x, query.q)

\* C7: a submission has an embedding only if its status is approved.
C7_EmbeddingOnlyIfApproved ==
    \A i \in DOMAIN experiences :
        experiences[i].embedding # None => experiences[i].status = "approved"

\* C8: a retriever call in which embedding the query or the database access
\* fails raises; it returns documents only when neither failed.
C8_FailurePropagates ==
    query.pc = "returned" => (query.raised <=> query.fault # "none")

\* the database access failed while eligible items existed, and the call raised
C8_Witness ==
    /\ query.pc = "returned"
    /\ query.fault = "db"
    /\ query.raised
    /\ EligibleItems # {}

\* --- claims about the functions called on their own
Called(f) == call.fn = f /\ ret # <<>>

\* C11: check_spam sets is_spam exactly when the text has at least two URLs
\* or a promotional keyword, and its reasons follow an else-chain with at most
\* one entry: the many-links reason, else the promotional-language reason,
\* else the single-link advisory, else none.
C11_SpamElseChain ==
    Called("check_spam") =>
        LET n == Cardinality(FindAll(call.text, url_pattern))
            promo == ContainsAny(Lower(call.text), _get_keywords.promo)
        IN  /\ ret[1].is_spam <=> (n >= 2 \/ promo)
            /\ ret[1].reasons =
                   IF n >= 2 THEN <<"many links (possible promotion)">>
                   ELSE IF promo THEN <<"promotional language">>
                   ELSE IF n = 1 THEN <<"contains link (needs review)">>
                   ELSE <<>>

\* C12: a returning check_relevance reports off-topic exactly when the best
\* on-topic score is below the threshold or no career keyword occurs in the
\* quote-stripped text; off-topic gives exactly one reason, the keyword
\* reason whenever no keyword matched and the score reason otherwise, and
\* on-topic gives no reason.
C12_Relevance ==
    (Called("check_relevance") /\ ~ret[1].raised) =>
        LET scores == Range(call.rel.scores)
            best == CHOOSE m \in scores : \A x \in scores : x <= m
            kw == ContainsAny(Lower(StripQuotes(call.text)), career_keywords)
            off == best < RelThreshold \/ ~kw
        IN  /\ ret[1].is_off_topic <=> off
            /\ ~kw => ret[1].reasons = <<"may be off-topic (no career-related words found)">>
            /\ (kw /\ off) =>
                   ret[1].reasons =
                       <<"may be off-topic (career relevance score " \o Fmt2(best) \o ")">>
            /\ ~off => ret[1].reasons = <<>>

\* a quoted text with a keyword and a best score equal to the threshold was
\* found on-topic
C12_Witness ==
    /\ Called("check_relevance") /\ ~ret[1].raised
    /\ call.rel = RelResult(10, RelThreshold, 10)
    /\ Len(call.text) > Len(StripQuotes(call.text))
    /\ ContainsAny(Lower(StripQuotes(call.text)), career_keywords)
    /\ ~ret[1].is_off_topic /\ ret[1].reasons = <<>>

\* the reasons of the four keyword families that match the text, in the
\* order hate, threats, self-harm, illegal advice
KeywordReasons(text) ==
    LET lowered == Lower(text)
    IN  AppendIf(ContainsAny(lowered, _get_keywords.hate),
                 "hate / harassment language (keyword)")
        \o AppendIf(ContainsAny(lowered, _get_keywords.threats),
                    "threatening language (keyword)")
        \o AppendIf(ContainsAny(lowered, _get_keywords.self_harm),
                    "self-harm language (keyword)")
        \o AppendIf(ContainsAny(lowered, _get_keywords.illegal_advice),
                    "illegal or unethical advice (keyword)")

\* C13: when the toxicity classifier fails to load or raises at inference,
\* check_safety returns the result of the keyword checks alone.
C13_ToxFailureSwallowed ==
    (Called("check_safety") /\ Failed(call.tox)) =>
        ret[1] = [ is_critical |-> KeywordReasons(call.text) # <<>>,
                   reasons |-> KeywordReasons(call.text) ]

\* the inference raised on a text with two keyword families, and these two
\* alone were reported
C13_Witness ==
    /\ Called("check_safety")
    /\ call.tox = ToxInferFail
    /\ Len(ret[1].reasons) = 2
    /\ ret[1].is_critical

\* C14: check_safety is critical exactly when a keyword family matches or
\* the model returns a toxic/negative label with a score of at least the
\* threshold; each matching family gives one reason, in the order hate,
\* threats, self-harm, illegal advice, then the model reason; critical iff
\* there is a reason; never more than 5 reasons.
C14_SafetyCritical ==
    Called("check_safety") =>
        LET kr == KeywordReasons(call.text)
            flagged == /\ call.tox.kind = "ok"
                       /\ LowerTok(call.tox.label) \in {"toxic", "negative"}
                       /\ call.tox.score >= ToxThreshold
            r == ret[1]
        IN  /\ r.is_critical <=> (kr # <<>> \/ flagged)
            /\ Len(r.reasons) = Len(kr) + (IF flagged THEN 1 ELSE 0)
            /\ SubSeq(r.reasons, 1, Len(kr)) = kr
            /\ flagged =>
                   r.reasons[Len(r.reasons)] =
                       "model flagged text as " \o LowerTok(call.tox.label)
                       \o " (score " \o Fmt2(call.tox.score) \o ")"
            /\ r.is_critical <=> (r.reasons # <<>>)
            /\ Len(r.reasons) <= 5

\* all four families matched and the model flagged with a score equal to
\* the threshold: five reasons
C14_Witness ==
    /\ Called("check_safety")
    /\ call.tox.kind = "ok" /\ call.tox.score = ToxThreshold
    /\ Len(ret[1].reasons) = 5
    /\ ret[1].is_critical

\* C15: check_pii returns one reason per PII category (email, phone, URL)
\* found in the text, and none when had_pii is false.
C15_ReasonPerCategory ==
    Called("check_pii") =>
        LET found == {p \in {email_pattern, phone_pattern, url_pattern} :
                          Search(call.text, p)}
        IN  /\ Len(ret[1].reasons) = Cardinality(found)
            /\ ~ret[1].had_pii => ret[1].reasons = <<>>

\* the literals the claim counts as PII: emails, phone-like digit runs
\* ('555-1234' among them) and URLs
PiiLiterals == email_pattern.atoms \cup phone_pattern.atoms \cup url_pattern.atoms

\* the literal occurs in the text
Occurs(lit, toks) == \E i \in 1..Len(toks) : lit \in Range(Atoms(toks[i]))

\* C16: for a text with an email, a phone-like digit run or a URL, check_pii
\* returns had_pii and a cleaned_text in which none of these literals occurs
\* any more; for a text with none of them it returns the text unchanged,
\* had_pii false and no reason.
C16_Redaction ==
    Called("check_pii") =>
        LET found == {l \in PiiLiterals : Occurs(l, call.text)}
            r == ret[1]
        IN  /\ found # {} =>
                   /\ r.had_pii
                   /\ \A l \in found : ~Occurs(l, r.cleaned_text)
            /\ found = {} =>
                   /\ r.cleaned_text = call.text
                   /\ ~r.had_pii
                   /\ r.reasons = <<>>

\* C17: check_pii applied to the cleaned_text it returned gives back the same
\* cleaned_text.
C17_Idempotent ==
    (call.fn = "check_pii" /\ Len(ret) = 2) =>
        ret[2].cleaned_text = ret[1].cleaned_text

\* C18: _truncate_text returns the text unchanged when it is at most n long;
\* otherwise the result ends with the marker, is at most n plus the marker
\* long, and its kept prefix ends right before the last space within the
\* first n characters whenever there is one.
C18_Truncate ==
    Called("_truncate_text") =>
        LET text == call.text
            n == call.max_length
            r == ret[1]
            m == Len(TruncationMarker)
            spaces == {i \in 1..Min2(n, Len(text)) : SubSeq(text, i, i) = " "}
        IN  /\ Len(text) <= n => r = text
            /\ Len(text) > n =>
                   /\ Len(r) >= m
                   /\ SubSeq(r, Len(r) - m + 1, Len(r)) = TruncationMarker
                   /\ Len(r) <= n + m
                   /\ LET kept == SubSeq(r, 1, Len(r) - m)
                      IN  /\ kept = SubSeq(text, 1, Len(kept))
                          /\ spaces # {} =>
                                 \E i \in spaces : /\ \A j \in spaces : j <= i
                                                    /\ Len(kept) = i - 1

\* a text was cut at a space two or more characters before position n
C18_Witness ==
    /\ Called("_truncate_text")
    /\ Len(call.text) > call.max_length
    /\ Len(ret[1]) + 2 <= call.max_length + Len(TruncationMarker)
    /\ Len(ret[1]) > Len(TruncationMarker)

\* C19: the content of every document built by the retriever is at most
\* max_content_length characters long.
C19_ContentBound ==
    Called("Document") => Len(ret[1].page_content) <= max_content_length

\* C20: ask_question passes to the generator the last min(len, 3) messages
\* of the history in their order, and returns them followed by the new user
\* turn and the new assistant turn: min(len, 3) + 2 messages.
C20_HistoryBound ==
    Called("ask_question") =>
        LET history == IF call.chat_history = None THEN <<>> ELSE call.chat_history[1]
            n == Min2(Len(history), 3)
            r == ret[1]
        IN  /\ Len(r.invoked.chat_history) = n
            /\ \A i \in 1..n : r.invoked.chat_history[i] = history[Len(history) - n + i]
            /\ ~r.raised =>
                   /\ Len(r.chat_history) = n + 2
                   /\ SubSeq(r.chat_history, 1, n) = r.invoked.chat_history
                   /\ r.chat_history[n + 1] = [ type |-> "human", content |-> call.question ]
                   /\ r.chat_history[n + 2] = [ type |-> "ai", content |-> r.answer ]

\* a history of more than three messages whose first three differ from its
\* last three came back as five messages
C20_Witness ==
    /\ Called("ask_question") /\ ~ret[1].raised
    /\ call.chat_history # None
    /\ Len(call.chat_history[1]) > 3
    /\ SubSeq(call.chat_history[1], 1, 3) # ret[1].invoked.chat_history
    /\ Len(ret[1].chat_history) = 5

\* what the source list is keyed on: the URL of a post, the id of a submission
DocKey(doc) ==
    IF doc.metadata.source_type = "user_experience"
    THEN <<"experience", doc.metadata.post_id>>
    ELSE <<"post", doc.metadata.url>>

EntryKey(entry) ==
    IF entry.source = "user_experience"
    THEN <<"experience", entry.post_id>>
    ELSE <<"post", entry.url>>

\* the positions of the context at which the item of a source entry occurs
SeenAt(context, entry) ==
    { n \in 1..Len(context) : DocKey(context[n]) = EntryKey(entry) }

FirstSeen(context, entry) ==
    CHOOSE n \in SeenAt(context, entry) : \A m \in SeenAt(context, entry) : n <= m

\* C21: the sources returned by ask_question hold no two entries for the same
\* post URL and no two for the same submission id, every entry stands for an
\* item of the retrieved context, and the entries are in the order in which
\* their items were first seen, for any sequence of retrieved documents
C21_SourcesDeduplicated ==
    (Called("ask_question") /\ ~ret[1].raised /\ call.chain.context # None) =>
        \E context \in {call.chain.context[1]} : \E sources \in {ret[1].sources} :
            /\ \A i \in 1..Len(sources) :
                   /\ EntryKey(sources[i])[2] # None
                   /\ SeenAt(context, sources[i]) # {}
            /\ \A i, j \in 1..Len(sources) :
                   i < j => /\ EntryKey(sources[i]) # EntryKey(sources[j])
                            /\ FirstSeen(context, sources[i])
                                   < FirstSeen(context, sources[j])

\* a context that shows one post in two chunks with a submission between
\* them came back as two sources
C21_Witness ==
    /\ Called("ask_question") /\ ~ret[1].raised /\ call.chain.context # None
    /\ \E context \in {call.chain.context[1]} :
           /\ Len(context) = 3
           /\ DocKey(context[1]) = DocKey(context[3])
           /\ context[1] # context[3]
           /\ context[2].metadata.source_type = "user_experience"
           /\ Len(ret[1].sources) = 2
           /\ ret[1].sources[2].source = "user_experience"

\* a step of approve_experience or reject_experience: the only steps that
\* change a row and leave the background tasks and the embedding job alone
ReviewStep(i) ==
    /\ i \in DOMAIN experiences
    /\ tasks' = tasks /\ job' = job
    /\ Len(experiences') = Len(experiences)
    /\ experiences'[i].status # experiences[i].status

\* C22: approve_experience and reject_experience change the status of a
\* submission only when it is 'pending'; in any other status they leave it
\* as it is, so a rejected submission is never re-approved and an approved
\* one never rejected
C22_ReviewOnlyFromPending ==
    [][\A i \in ExpIds : ReviewStep(i) => experiences[i].status = "pending"]_vars

\* C23: each of the two pipelines is constructed at most once per process,
\* also when the first uses happen concurrently from several threads
C23_ConstructedOnce ==
    \A name \in PipelineNames : constructed[name] <= 1

\* the step in which the background pass of submission i ends
ModerationStep(i) ==
    /\ i \in DOMAIN tasks
    /\ tasks[i].pos = "queued"
    /\ tasks'[i].pos # "queued"

\* the row of submission i after a pass that committed verdict v
Committed(row, v) ==
    [row EXCEPT !.text = v.cleaned_text, !.status = v.status, !.severity = v.severity,
                !.flagged_reason = v.flagged_reason, !.flagged_at = v.flagged_at]

\* C24: a background moderation pass either commits all five verdict fields
\* (text, status, severity, flagged_reason, flagged_at) of the submission
\* with the given id and changes no other row, or, when validation or the
\* commit raises, leaves every row unchanged; the failure stays in the task
C24_PassAtomic ==
    [][\A i \in 1..MaxSubmissions : ModerationStep(i) =>
          /\ Len(experiences') = Len(experiences)
          /\ \A j \in DOMAIN experiences : j # i => experiences'[j] = experiences[j]
          /\ \/ /\ tasks'[i].pos = "failed"
                /\ experiences'[i] = experiences[i]
             \/ /\ tasks'[i].pos = "done"
                /\ \E tox \in TaskToxOutcomes, rel \in TaskRelOutcomes :
                       \E v \in {validate_experience(tasks[i].original_text, tox, rel)} :
                           /\ ~v.raised
                           /\ experiences'[i] = Committed(experiences[i], v)]_vars

\* one pass has committed a redacted, flagged verdict while the pass of
\* another submission failed and left its row as submitted
C24_Witness ==
    \E i, j \in DOMAIN tasks :
        /\ i # j
        /\ tasks[i].pos = "done"
        /\ experiences[i].text # tasks[i].original_text
        /\ experiences[i].flagged_reason # None
        /\ tasks[j].pos = "failed"
        /\ experiences[j].text = tasks[j].original_text
        /\ experiences[j].flagged_reason = None

\* C25: a reviewer's decision is never overwritten by the moderation pass:
\* once reject_experience has set 'rejected', the end of the submission's
\* background pass leaves the status 'rejected', in every interleaving of
\* submit_experience, run_experience_validation and reject_experience
C25_RejectionStands ==
    [][\A i \in 1..MaxSubmissions :
          (ModerationStep(i) /\ experiences[i].status = "rejected")
              => experiences'[i].status = "rejected"]_vars

\* C26: no submission is eligible for retrieval before its moderation pass
\* has committed a verdict: every submission a query returns has a finished,
\* committed pass, so none is returned with the text as it was submitted,
\* in every interleaving of submit_experience, run_experience_validation,
\* generate_user_experience_embeddings and a query
C26_ModeratedBeforeRetrieval ==
    [][(RetrieveStep /\ ~query'.raised) =>
          \A d \in Range(query'.documents) :
              d.source_type = "user_experience" => tasks[d.item_id].pos = "done"]_vars

\* C27: after the moderation pass of a submission has committed, no stored
\* field of the submission holds an address, phone number or link that
\* check_pii redacted from the submitted text: neither the stored text nor
\* the stored title
C27_NoStoredPii ==
    \A i \in DOMAIN tasks :
        tasks[i].pos = "done" =>
            \A l \in PiiLiterals :
                Occurs(l, tasks[i].original_text) =>
                    /\ ~Occurs(l, experiences[i].text)
                    /\ ~Occurs(l, experiences[i].title)

\* C28: for every verdict of validate_experience, flagged_reason is null
\* exactly when status is 'approved': an approved verdict carries no reason,
\* not even the single-link advisory of check_spam, and a pending verdict
\* carries at least one reason
C28_ReasonIffPending ==
    Returned =>
        /\ vresult.status \in {"approved", "pending"}
        /\ (vresult.flagged_reason = None) <=> (vresult.status = "approved")
        /\ vresult.status = "pending" => Len(vresult.flagged_reason[1]) >= 1
        /\ vresult.status = "approved" => vstages.spam.reasons = <<>>

\* a text with exactly one link was flagged for the redacted link alone,
\* and check_spam, which saw the text after redaction, gave no advisory
C28_Witness ==
    /\ Returned
    /\ Cardinality(FindAll(vtext, url_pattern)) = 1
    /\ vresult.status = "pending"
    /\ vresult.flagged_reason = Some(<<"contains PII (auto-redacted)">>)
    /\ vstages.spam.reasons = <<>>

\* C29: when the history ask_question returns is fed back as chat_history
\* turn after turn, the history passed to the chain never exceeds 3 messages
\* and the history returned never exceeds 3 + 2 = 5 messages
C29_HistoryStaysBounded ==
    Called("ask_question") =>
        \A k \in 1..Len(ret) :
            /\ Len(ret[k].invoked.chat_history) <= 3
            /\ Len(ret[k].chat_history) <= 5
            /\ k > 1 => \E fed \in {ret[k - 1].chat_history} :
                   ret[k].invoked.chat_history =
                       SubSeq(fed, Max2(1, Len(fed) - 2), Len(fed))

\* a conversation that began without history: the second turn returned four
\* messages, the third was given the last three of them and returned five
C29_Witness ==
    /\ Called("ask_question")
    /\ call.chat_history = None
    /\ Len(ret) >= 3
    /\ Len(ret[2].chat_history) = 4
    /\ Len(ret[3].invoked.chat_history) = 3
    /\ ret[3].invoked.chat_history # SubSeq(ret[2].chat_history, 1, 3)
    /\ Len(ret[3].chat_history) = 5

\* C30: POST /ask answers 200 with its source citations whenever
\* ask_question succeeds, also when the retrieved context holds approved
\* user experiences, whose source entries carry url = None
C30_AskSucceeds ==
    Called("ask") =>
        \E result \in {ask_question(call.chain, call.payload.question,
                                     Some(parse_chat_history(call.payload.chat_history)))} :
            ~result.raised =>
                /\ ret[1].status_code = 200
                /\ ret[1].answer = result.answer
                /\ Len(ret[1].sources) = Len(result.sources)

====
